---- MODULE Spec2Model ----
(***************************************************************************)
(* A model of pyrdle: the Wordle game of src/src/pyrdle/wordle.py, its     *)
(* players and its controller.                                             *)
(*                                                                         *)
(* Words are sequences of one-character strings.  Python indexes from 0,   *)
(* TLA+ sequences from 1: index i of the source is index i+1 here.         *)
(* The values True / False / None returned by Game.state are the strings   *)
(* "True" / "False" / "None".                                              *)
(***************************************************************************)
EXTENDS Integers, Sequences, FiniteSets, TLC

\* ---------------------------------------------------------------- bounds
\* Configuration.length of the configurations explored.
Length == 2
\* Largest Configuration.height explored (heights 0..MaxHeight).
MaxHeight == 2
\* Largest vocabulary (len(configuration.allowed)) explored.
MaxVocab == 3
\* Longest `initial` list handed to an InitialGuesser.
MaxInitial == 2

\* ------------------------------------------------------------ vocabulary
AlphabetOrder == <<"a", "b", "c", "d", "e", "f", "g", "h">>
Alphabet == {AlphabetOrder[i] : i \in DOMAIN AlphabetOrder}

\* Python compares str by code point: "a" < "b" < "c" < ...
CharRank == [ch \in Alphabet |-> CHOOSE i \in DOMAIN AlphabetOrder : AlphabetOrder[i] = ch]

\* The two-letter patterns the explored words are made of: a word and its
\* reversal, a word sharing one letter with them, a word with a repeated
\* letter.
Patterns == {<<"a", "b">>, <<"b", "a">>, <<"b", "c">>, <<"c", "c">>}

\* The words of the configured length that the explored vocabularies and
\* secrets are drawn from: each pattern, continued periodically to that
\* length (ab, ba, bc, cc; aba, bab, bcb, ccc; ...).
Universe ==
    {[i \in 1..Length |-> p[((i - 1) % 2) + 1]] : p \in Patterns}

\* Words of a wrong length, as a caller may pass them.
\* Configuration.__init__: length = 5, height = 6.
DefaultLength == 5
DefaultHeight == 6

\* The two words of the documented example.
Crane == <<"c", "r", "a", "n", "e">>
Trace == <<"t", "r", "a", "c", "e">>

ShortWord == [i \in 1..(Length - 1) |-> "a"]
LongWord == [i \in 1..(Length + 1) |-> "b"]

\* What a direct caller passes to append_guess.
GuessInputs == Universe \cup {ShortWord, LongWord}

\* What a caller puts in the `initial` list of an InitialGuesser.
InitialPool == Universe \cup {ShortWord}
InitialLists == UNION {[1..k -> InitialPool] : k \in 0..MaxInitial}

Range(s) == {s[i] : i \in DOMAIN s}

Min(a, b) == IF a <= b THEN a ELSE b

\* Python's order on str: u < v.
LexLess(u, v) ==
    \/ \E i \in 1..Min(Len(u), Len(v)) :
          /\ \A j \in 1..(i - 1) : u[j] = v[j]
          /\ CharRank[u[i]] < CharRank[v[i]]
    \/ /\ Len(u) < Len(v)
       /\ \A j \in 1..Len(u) : u[j] = v[j]

\* get_words returns a set: configuration.allowed has no order of its own, and
\* iterating it visits the words in an order the interpreter chooses (it is
\* the same each time the unchanged set is iterated).  The vocabulary is kept
\* as that iteration order, a sequence without repetition.
AllowedOrders ==
    {s \in UNION {[1..k -> Universe] : k \in 1..MaxVocab} :
        \A i, j \in DOMAIN s : i # j => s[i] # s[j]}

\* ----------------------------------------------------------------- state
VARIABLES
    allowed,    \* configuration.allowed, in its iteration order
    length,     \* configuration.length
    height,     \* configuration.height
    word,       \* Game.word, the secret
    guesses,    \* Game.guesses
    calls,      \* Game.calls
    pc,         \* "start", "game", "playing", "returned", "raised", "sweep", "swept"
    raised,     \* message of the exception the last call raised, or "none"
    arg,        \* the word last passed to append_guess
    guessFrom,  \* who produced arg: "caller", "Random", "initial", "late"
    playerCls,  \* "none", "RandomPlayer", "GreedyInitialGuesser"
    initial,    \* InitialGuesser.initial
    n,          \* InitialGuesser.n
    rounds,     \* iterations of the loop of Game.play so far
    player_cls,     \* Controller.player_cls, or "none"
    player_kwargs,  \* Controller.player_kwargs["initial"] (<<>> when absent)
    sweepAt,    \* words of configuration.allowed that play_all has taken
    counter,    \* the Counter of play_all
    played,     \* the games Controller.play has returned to play_all, in
                \* order: secret, len(guesses), state(), last guess = secret
    words_list, \* Language.words_list (<<>>: no Language)
    frequency,  \* Language.frequency, a Counter of characters
    langCall,   \* the method of Language called last, or "none"
    langArgs,   \* its argument: k, or the tuple of words
    langOut     \* what it returned (iter_k_tuples: the tuples it yielded)

vars == <<allowed, length, height, word, guesses, calls, pc, raised, arg, guessFrom,
          playerCls, initial, n, rounds, player_cls, player_kwargs, sweepAt,
          counter, played, words_list, frequency, langCall, langArgs, langOut>>

configVars == <<allowed, length, height>>
gameVars == <<word, guesses, calls>>
playerVars == <<playerCls, initial, n>>
sweepVars == <<player_cls, player_kwargs, sweepAt, counter, played>>
langVars == <<words_list, frequency, langCall, langArgs, langOut>>
wordleVars == <<gameVars, playerVars, sweepVars, pc, raised, arg, guessFrom,
                rounds>>

\* configuration.allowed as the set it is.
AllowedSet == Range(allowed)

\* Messages of the exceptions of the source.
WrongLength == "Word wrong length"
NotFound == "Word not found"
CouldNotGuess == "could not make a guess"
InitialNotLength == "Initial guess is not configuration.length"

\* The exception class raised with each message.
ExceptionType(msg) ==
    IF msg = NotFound THEN "KeyError"
    ELSE IF msg = "none" THEN "none" ELSE "ValueError"

\* -------------------------------------------------------------- the game
\* Game.state, with the comparison of src/wordle.py:92 (`>` for `>=`).
stateGreater ==
    IF Len(guesses) > height THEN "False"
    ELSE IF 0 < Len(guesses) /\ guesses[Len(guesses)] = word THEN "True"
    ELSE "None"

\* Game.state of the older module src/wordle.py.
olderState ==
    IF Len(guesses) > height THEN "False"
    ELSE IF 0 < Len(guesses) /\ guesses[Len(guesses)] = word THEN "True"
    ELSE "None"

\* Game.state
state ==
    IF Len(guesses) >= height THEN "False"
    ELSE IF 0 < Len(guesses) /\ guesses[Len(guesses)] = word THEN "True"
    ELSE "None"

\* Game._call with the two outcomes of a character that is not in place
\* exchanged.
callExchanged(secret, actual_character, given_character) ==
    IF actual_character = given_character THEN "correct"
    ELSE IF given_character \in Range(secret) THEN "incorrect"
    ELSE "somewhere"

\* Game._call with `actual_character in self.word` for `given_character in
\* self.word`.
callActual(secret, actual_character, given_character) ==
    IF actual_character = given_character THEN "correct"
    ELSE IF actual_character \in Range(secret) THEN "somewhere"
    ELSE "incorrect"

\* Game._call (self.word is `secret`)
call(secret, actual_character, given_character) ==
    IF actual_character = given_character THEN "correct"
    ELSE IF given_character \in Range(secret) THEN "somewhere"
    ELSE "incorrect"

\* The calls of a guess with the secret taken from its second character on
\* (zip stops at the shorter of the two).
callTupleShifted(secret, guess) ==
    [i \in 1..Min(Len(secret) - 1, Len(guess)) |->
        call(secret, secret[i + 1], guess[i])]

\* The tuple appended to Game.calls: zip stops at the shorter word.
callTuple(secret, guess) ==
    [i \in 1..Min(Len(secret), Len(guess)) |-> call(secret, secret[i], guess[i])]

\* The checks of append_guess in the other order.
appendGuessErrorSwapped(w) ==
    IF w \notin AllowedSet THEN NotFound
    ELSE IF length # Len(w) THEN WrongLength
    ELSE "none"

\* The checks that open append_guess: the message raised, or "none".
appendGuessError(w) ==
    IF length # Len(w) THEN WrongLength
    ELSE IF w \notin AllowedSet THEN NotFound
    ELSE "none"

\* The secrets explored: the words of the configured length.
Secrets == {w \in Universe \cup AllowedSet : Len(w) = length}

\* Game.__init__: an explicit secret (any word of the configured length, in
\* the vocabulary or not: the constructor checks nothing), or
\* configuration.choice().
GameInit ==
    /\ pc = "start"
    /\ \E w \in Secrets, explicit \in BOOLEAN :
          /\ explicit \/ w \in AllowedSet
          /\ word' = w
    /\ guesses' = <<>>
    /\ calls' = <<>>
    /\ pc' = "game"
    /\ UNCHANGED <<configVars, langVars, playerVars, sweepVars, raised, arg, guessFrom,
                   rounds>>

\* Game.append_guess(w), called directly on the game.  The history explored
\* stops at MaxHeight + 1 guesses, one more than any height.
append_guess(w) ==
    /\ pc = "game"
    /\ Len(guesses) <= MaxHeight
    /\ arg' = w
    /\ guessFrom' = "caller"
    /\ raised' = appendGuessError(w)
    /\ IF appendGuessError(w) = "none"
         THEN /\ guesses' = Append(guesses, w)
              /\ calls' = Append(calls, callTuple(word, w))
         ELSE UNCHANGED <<guesses, calls>>
    /\ UNCHANGED <<configVars, langVars, word, pc, playerVars, sweepVars, rounds>>

AppendGuess == \E w \in GuessInputs \cup AllowedSet : append_guess(w)

\* ----------------------------------------------------------- constraints
\* positions[i] = x
SetPosition(positions, i, x) ==
    [j \in (DOMAIN positions) \cup {i} |-> IF j = i THEN x ELSE positions[j]]

NoConstraints == [positions |-> <<>>, appears |-> {}, no_appears |-> {}]

\* The inner loop of get_constraints over one guess and its call, from
\* position i on.
RECURSIVE FoldGuess(_, _, _, _)
FoldGuess(cs, c, guess, i) ==
    IF i > Min(Len(c), Len(guess)) THEN cs
    ELSE FoldGuess(
           IF c[i] = "correct"
             THEN [cs EXCEPT !.positions = SetPosition(cs.positions, i, guess[i]),
                             !.appears = @ \cup {guess[i]}]
           ELSE IF c[i] = "somewhere"
             THEN [cs EXCEPT !.appears = @ \cup {guess[i]}]
           ELSE IF c[i] = "incorrect"
             THEN [cs EXCEPT !.no_appears = @ \cup {guess[i]}]
           ELSE cs,
           c, guess, i + 1)

\* The outer loop of get_constraints, from guess k on.
RECURSIVE FoldHistory(_, _, _, _)
FoldHistory(cs, gs, cls, k) ==
    IF k > Min(Len(gs), Len(cls)) THEN cs
    ELSE FoldHistory(FoldGuess(cs, cls[k], gs[k], 1), gs, cls, k + 1)

\* get_constraints with the three collections created inside the loop over
\* the guesses: only the last guess counts.
getConstraintsLastOnly(gs, cls) ==
    IF Min(Len(gs), Len(cls)) = 0 THEN NoConstraints
    ELSE FoldGuess(NoConstraints, cls[Min(Len(gs), Len(cls))],
                   gs[Min(Len(gs), Len(cls))], 1)

\* get_constraints
\* The constraints as the loop of the older guess_late_game collects them: a
\* character called "correct" is not added to appears.
getConstraintsOlder(gs, cls) ==
    [FoldHistory(NoConstraints, gs, cls, 1) EXCEPT !.appears =
        {gs[k][i] : <<k, i>> \in
            {ki \in (DOMAIN gs) \X (1..length) :
                cls[ki[1]][ki[2]] = "somewhere"}}]

get_constraints(gs, cls) == FoldHistory(NoConstraints, gs, cls, 1)

\* valid_under_constraints
valid_under_constraints(w, positions, appears, no_appears) ==
    /\ \A i \in DOMAIN positions : w[i] = positions[i]
    /\ \A char \in appears : char \in Range(w)
    /\ \A char \in no_appears : char \notin Range(w)

\* --------------------------------------------------------------- players
\* The places of configuration.allowed whose word guess_late_game accepts.
LateCandidates(gs, cls) ==
    LET cs == get_constraints(gs, cls)
    IN {i \in DOMAIN allowed :
          /\ allowed[i] \notin Range(gs)
          /\ valid_under_constraints(allowed[i], cs.positions, cs.appears,
                                     cs.no_appears)}

\* GreedyInitialGuesser.guess_late_game: the first accepted word met when
\* iterating configuration.allowed, or the exception.
guess_late_game(gs, cls) ==
    LET found == LateCandidates(gs, cls)
    IN IF found = {}
         THEN [raised |-> CouldNotGuess, word |-> <<>>]
         ELSE [raised |-> "none",
               word |-> allowed[CHOOSE i \in found : \A j \in found : i <= j]]

\* player.guess(guesses, calls): the outcomes it can have, each with the
\* word returned (or the exception raised), the player's n afterwards and
\* the branch that produced it.
PlayerGuess ==
    IF playerCls = "RandomPlayer"
      THEN {[raised |-> "none", word |-> w, n |-> n, from |-> "Random"] :
               w \in AllowedSet}
    ELSE IF n < Len(initial)
      THEN {[raised |-> "none", word |-> initial[n + 1], n |-> n + 1,
             from |-> "initial"]}
    ELSE LET late == guess_late_game(guesses, calls)
         IN {[raised |-> late.raised, word |-> late.word, n |-> n,
              from |-> "late"]}

\* InitialGuesser.__init__ without the check of the initial words.
initialErrorUnchecked(ini) == "none"

\* InitialGuesser.__init__ with a check that looks at the first word only.
initialErrorFirstOnly(ini) ==
    IF ini # <<>> /\ Len(ini[1]) # length
      THEN InitialNotLength
      ELSE "none"

\* The check of InitialGuesser.__init__: the message raised, or "none".
initialError(ini) ==
    IF \E i \in DOMAIN ini : Len(ini[i]) # length
      THEN InitialNotLength
      ELSE "none"

\* Controller.play with one player kept from game to game: its n is not
\* reset.
MakePlayerShared(cls, ini) ==
    /\ playerCls' = cls
    /\ rounds' = 0
    /\ raised' = "none"
    /\ pc' = "playing"
    /\ initial' = ini
    /\ n' = n

\* player_resolver.make(player_cls, player_kwargs, configuration=...):
\* RandomPlayer(configuration=...) or GreedyInitialGuesser(configuration=...,
\* initial=ini), whose constructor is InitialGuesser.__init__; when it
\* succeeds Game.play is entered.
MakePlayer(cls, ini) ==
    /\ playerCls' = cls
    /\ rounds' = 0
    /\ IF cls = "GreedyInitialGuesser" /\ initialError(ini) # "none"
         THEN /\ raised' = initialError(ini)
              /\ pc' = "raised"
              /\ UNCHANGED <<initial, n>>
         ELSE /\ raised' = "none"
              /\ pc' = "playing"
              /\ initial' = ini
              /\ n' = 0

\* The classes of player_resolver and the keyword arguments explored.
PlayerChoices ==
    {<<"RandomPlayer", <<>> >>}
        \cup {<<"GreedyInitialGuesser", ini>> : ini \in InitialLists}

\* A player is made for a new game and Game.play is called with it.
PlayerInit ==
    /\ pc = "game"
    /\ guesses = <<>>
    /\ \E ch \in PlayerChoices : MakePlayer(ch[1], ch[2])
    /\ UNCHANGED <<configVars, langVars, gameVars, sweepVars, arg, guessFrom>>

\* One iteration of the loop of Game.play, entered when state() returned st:
\* the player guesses, the guess is appended.  An exception of either leaves
\* Game.play.
PlayLoop(st) ==
    /\ pc = "playing"
    /\ st = "None"
    /\ \E o \in PlayerGuess :
          /\ n' = o.n
          /\ guessFrom' = o.from
          /\ IF o.raised # "none"
               THEN /\ raised' = o.raised
                    /\ pc' = "raised"
                    /\ UNCHANGED <<guesses, calls, arg, rounds>>
               ELSE /\ arg' = o.word
                    /\ rounds' = rounds + 1
                    /\ raised' = appendGuessError(o.word)
                    /\ IF appendGuessError(o.word) = "none"
                         THEN /\ guesses' = Append(guesses, o.word)
                              /\ calls' = Append(calls, callTuple(word, o.word))
                              /\ pc' = "playing"
                         ELSE /\ pc' = "raised"
                              /\ UNCHANGED <<guesses, calls>>
    /\ UNCHANGED <<configVars, langVars, sweepVars, word, playerCls, initial>>

\* The loop of Game.play ends when state() returned st, which is not None.
PlayEnd(st) ==
    /\ pc = "playing"
    /\ st # "None"
    /\ pc' = "returned"
    /\ UNCHANGED <<configVars, langVars, gameVars, playerVars, sweepVars, raised, arg,
                   guessFrom, rounds>>

\* Game.play of the package.
PlayRound == PlayLoop(state)
PlayReturn == PlayEnd(state)

\* Game.play of the older module src/wordle.py, whose Game.state is
\* olderState.  Its append_guess, _call and players are the same, and its
\* guess_late_game accepts the same words (a character called "correct" is
\* not put in appears there, but the word must have it in place anyway).
OlderPlayRound == PlayLoop(olderState)
OlderPlayReturn == PlayEnd(olderState)

\* ------------------------------------------------------------ controller
\* Counter(): no key yet.
EmptyCounter == [Failure |-> 0, ints |-> <<>>]

\* counter[key] += 1 for an int key; an absent key counts from 0.
CountInt(c, key) ==
    [c EXCEPT !.ints =
        [k \in (DOMAIN c.ints) \cup {key} |->
            IF k = key
              THEN (IF key \in DOMAIN c.ints THEN c.ints[key] ELSE 0) + 1
              ELSE c.ints[k]]]

\* counter["Failure"] += 1
CountFailure(c) == [c EXCEPT !.Failure = @ + 1]

\* counter[key] of a Counter: 0 for an absent key.
CounterGet(c, key) == IF key \in DOMAIN c.ints THEN c.ints[key] ELSE 0

RECURSIVE SumOver(_, _)
\* sum(f[k] for k in S)
SumOver(f, S) ==
    IF S = {} THEN 0
    ELSE LET k == CHOOSE x \in S : TRUE
         IN f[k] + SumOver(f, S \ {k})

\* sum(value for key, value in counter.items() if isinstance(key, int))
IntValues(c) == SumOver(c.ints, DOMAIN c.ints)

\* sum(counter.values())
AllValues(c) == IntValues(c) + c.Failure

\* Configuration.success(counter): successes / total, as the fraction it
\* divides (a total of 0 is ZeroDivisionError).
success(c) == [num |-> IntValues(c), den |-> AllValues(c)]

\* Configuration.speed(counter): sum(key * value) / len(self.allowed).
speed(c) ==
    [num |-> SumOver([k \in DOMAIN c.ints |-> k * c.ints[k]], DOMAIN c.ints),
     den |-> Len(allowed)]

\* Controller.__init__ and the entry of play_all.
PlayAll ==
    /\ pc = "start"
    /\ \E ch \in PlayerChoices :
          /\ player_cls' = ch[1]
          /\ player_kwargs' = ch[2]
    /\ counter' = EmptyCounter
    /\ played' = <<>>
    /\ sweepAt' = 0
    /\ pc' = "sweep"
    /\ UNCHANGED <<configVars, langVars, gameVars, playerVars, raised, arg, guessFrom,
                   rounds>>

\* The loop of play_all takes the next word of configuration.allowed and
\* calls Controller.play(word): a new game, a new player, Game.play.
SweepPlay ==
    /\ pc = "sweep"
    /\ sweepAt < Len(allowed)
    /\ sweepAt' = sweepAt + 1
    /\ word' = allowed[sweepAt + 1]
    /\ guesses' = <<>>
    /\ calls' = <<>>
    /\ arg' = <<>>
    /\ guessFrom' = "none"
    /\ MakePlayer(player_cls, player_kwargs)
    /\ UNCHANGED <<configVars, langVars, player_cls, player_kwargs, counter, played>>

\* The game Controller.play returns, as play_all sees it.
GameReturned ==
    [word |-> word,
     guesses |-> Len(guesses),
     state |-> state,
     solved |-> guesses # <<>> /\ guesses[Len(guesses)] = word]

\* Controller.play has returned the game to play_all, which tallies it.
SweepTally ==
    /\ pc = "returned"
    /\ sweepAt > 0
    /\ counter' = IF state = "True"
                    THEN CountInt(counter, Len(guesses))
                    ELSE CountFailure(counter)
    /\ played' = Append(played, GameReturned)
    /\ pc' = "sweep"
    /\ UNCHANGED <<configVars, langVars, gameVars, playerVars, player_cls, player_kwargs,
                   sweepAt, raised, arg, guessFrom, rounds>>

\* The loop of play_all is exhausted: the counter is returned.
SweepReturn ==
    /\ pc = "sweep"
    /\ sweepAt = Len(allowed)
    /\ pc' = "swept"
    /\ UNCHANGED <<configVars, langVars, gameVars, playerVars, sweepVars, raised, arg,
                   guessFrom, rounds>>

\* -------------------------------------------------------------- language
\* Largest corpus, largest k and longest argument list explored.
MaxCorpus == 4
MaxK == 3
MaxScored == 2
\* Largest n passed to get_top_words.
MaxTop == 2

\* The words the explored corpora are drawn from: four words without a
\* common letter, two words that share letters with them, a word with a
\* repeated letter.
LangUniverse ==
    {<<"a", "b">>, <<"c", "d">>, <<"e", "f">>, <<"g", "h">>,
     <<"a", "c">>, <<"b", "f">>, <<"e", "e">>}

\* get_words(length, language): the corpora explored.
Corpora ==
    {c \in SUBSET LangUniverse : 1 <= Cardinality(c) /\ Cardinality(c) <= MaxCorpus}

\* The words passed to score_words: in the corpus or not.
ScorePool == {<<"a", "b">>, <<"c", "d">>, <<"a", "c">>, <<"e", "e">>}
ScoreInputs == UNION {[1..m -> ScorePool] : m \in 0..MaxScored}

RECURSIVE sorted(_)
\* sorted(words): ascending in Python's order on str.
sorted(S) ==
    IF S = {} THEN <<>>
    ELSE LET least == CHOOSE x \in S : \A y \in S \ {x} : LexLess(x, y)
         IN <<least>> \o sorted(S \ {least})

\* Counter(w)[ch]
CharCount(w, ch) == Cardinality({i \in DOMAIN w : w[i] = ch})

\* _exclusive without the count inside a word: no character in common.
exclusiveDisjoint(left, right) == Range(left) \cap Range(right) = {}

\* _exclusive(left, right): the most common character of
\* Counter(left) + Counter(right) occurs once.
exclusive(left, right) ==
    LET counts == [ch \in Range(left) \cup Range(right) |->
                      CharCount(left, ch) + CharCount(right, ch)]
    IN \A ch \in DOMAIN counts : counts[ch] = 1

RECURSIVE orderedPairs(_, _, _)
\* Every pair of two different places of seq, in both orders.
orderedPairs(seq, i, j) ==
    IF i > Len(seq) THEN <<>>
    ELSE IF j > Len(seq) THEN orderedPairs(seq, i + 1, 1)
    ELSE IF i = j THEN orderedPairs(seq, i, j + 1)
    ELSE << <<seq[i], seq[j]>> >> \o orderedPairs(seq, i, j + 1)

RECURSIVE combinations(_, _, _)
\* itertools.combinations(seq, 2), in the order it yields, from <<i, j>> on.
combinations(seq, i, j) ==
    IF i >= Len(seq) THEN <<>>
    ELSE IF j > Len(seq) THEN combinations(seq, i + 1, i + 2)
    ELSE << <<seq[i], seq[j]>> >> \o combinations(seq, i, j + 1)

\* zip(seq, seq[1:]): neighbours only.
neighbours(seq) == [m \in 1..(Len(seq) - 1) |-> <<seq[m], seq[m + 1]>>]

\* rv[key].append(value) on a defaultdict(list), kept as the sequence of its
\* items in insertion order.
DictAppend(rv, key, value) ==
    IF \E e \in DOMAIN rv : rv[e].key = key
      THEN [e \in DOMAIN rv |->
              IF rv[e].key = key
                THEN [rv[e] EXCEPT !.values = Append(@, value)]
                ELSE rv[e]]
      ELSE Append(rv, [key |-> key, values |-> <<value>>])

RECURSIVE IndexPairs(_, _, _, _)
\* for left, right in pairs: if _exclusive(left, right):
\*     rv[(*key, left)].append(right)
IndexPairs(rv, key, pairs, p) ==
    IF p > Len(pairs) THEN rv
    ELSE IndexPairs(
           IF exclusive(pairs[p][1], pairs[p][2])
             THEN DictAppend(rv, Append(key, pairs[p][1]), pairs[p][2])
             ELSE rv,
           key, pairs, p + 1)

\* Language.get_index
get_index(wl) == IndexPairs(<<>>, <<>>, combinations(wl, 1, 2), 1)

RECURSIVE DeepenFrom(_, _, _)
\* The loop of deepen_index over index.items(), from item e on.
DeepenFrom(rv, index, e) ==
    IF e > Len(index) THEN rv
    ELSE DeepenFrom(
           IndexPairs(rv, index[e].key, combinations(index[e].values, 1, 2), 1),
           index, e + 1)

RECURSIVE DeepenNeighboursFrom(_, _, _)
DeepenNeighboursFrom(rv, index, e) ==
    IF e > Len(index) THEN rv
    ELSE DeepenNeighboursFrom(
           IndexPairs(rv, index[e].key, neighbours(index[e].values), 1),
           index, e + 1)

\* deepen_index that pairs each value with the next one only.
deepenNeighbours(index) == DeepenNeighboursFrom(<<>>, index, 1)

\* Language.deepen_index
deepen_index(index) == DeepenFrom(<<>>, index, 1)

RECURSIVE Deepened(_, _)
\* for _ in range(times): index = self.deepen_index(index)
Deepened(index, times) ==
    IF times <= 0 THEN index
    ELSE Deepened(deepen_index(index), times - 1)

RECURSIVE Unwind(_, _)
\* for key, values in index.items(): for value in values: yield *key, value
Unwind(index, e) ==
    IF e > Len(index) THEN <<>>
    ELSE [v \in DOMAIN index[e].values |->
             Append(index[e].key, index[e].values[v])]
         \o Unwind(index, e + 1)

\* Language.iter_k_tuples(k), as the sequence of the tuples it yields.
iter_k_tuples(wl, k) ==
    IF k = 1 THEN [i \in DOMAIN wl |-> <<wl[i]>>]
    ELSE Unwind(Deepened(get_index(wl), k - 2), 1)

\* Counter(char for word in words for char in word)
Frequency(words) ==
    [ch \in UNION {Range(w) : w \in words} |->
        SumOver([w \in words |-> CharCount(w, ch)], words)]

\* total = sum(self.frequency.values())
Total == SumOver(frequency, DOMAIN frequency)

\* frequency_norm[char] is frequency[char] / total, 0 for a character the
\* corpus does not have: its numerator.
NormNumerator(ch) == IF ch \in DOMAIN frequency THEN frequency[ch] ELSE 0

RECURSIVE SumSeq(_, _)
\* sum(f[i] for i in the sequence f, from i on)
SumSeq(f, i) == IF i > Len(f) THEN 0 ELSE f[i] + SumSeq(f, i + 1)

\* score_words summing over every character of every word, not over the set.
scoreWordsPerOccurrence(ws) ==
    [num |-> SumSeq([i \in DOMAIN ws |->
                        SumSeq([j \in DOMAIN ws[i] |-> NormNumerator(ws[i][j])], 1)],
                    1),
     den |-> Total]

\* Language.score_words(*words): the sum of frequency_norm over the set of
\* the characters, as the fraction over total it amounts to.
score_words(ws) ==
    LET chars == UNION {Range(ws[i]) : i \in DOMAIN ws}
    IN [num |-> SumOver([ch \in chars |-> NormNumerator(ch)], chars),
        den |-> Total]

\* scores.items() of get_top_words: every yielded tuple with its score, in
\* the order of the yield (the yielded tuples are distinct keys).
ScoreItems(wl, k) ==
    LET yielded == iter_k_tuples(wl, k)
    IN [i \in DOMAIN yielded |->
           [words |-> yielded[i], score |-> score_words(yielded[i])]]

\* items without its i-th element.
Without(items, i) ==
    SubSeq(items, 1, i - 1) \o SubSeq(items, i + 1, Len(items))

RECURSIVE SortedByScore(_)
\* sorted(items, key=itemgetter(1), reverse=True): a stable sort, equal
\* scores stay in the order of the items.
SortedByScore(items) ==
    IF items = <<>> THEN <<>>
    ELSE LET first == CHOOSE i \in DOMAIN items :
                 /\ \A j \in DOMAIN items : items[j].score.num <= items[i].score.num
                 /\ \A j \in 1..(i - 1) : items[j].score.num < items[i].score.num
         IN <<items[first]>> \o SortedByScore(Without(items, first))

\* The first top items as they stand, unsorted (all when n is None).
firstItems(items, top, none) ==
    IF none THEN items ELSE SubSeq(items, 1, Min(top, Len(items)))

\* Counter.most_common(top): all items sorted by score when top is None,
\* heapq.nlargest(top, items, key=itemgetter(1)) otherwise, which is the
\* first top of the same sorted list.
most_common(items, top, none) ==
    IF none THEN SortedByScore(items)
    ELSE SubSeq(SortedByScore(items), 1, Min(top, Len(items)))

\* Language.get_top_words(k=k, n=n)
get_top_words(wl, k, top, none) == most_common(ScoreItems(wl, k), top, none)

\* language.get_top_words(k=k, n=n), n a number or None
GetTopWords ==
    /\ words_list # <<>>
    /\ \E k \in 1..MaxK, top \in 0..MaxTop, none \in BOOLEAN :
          /\ none => top = 0
          /\ langCall' = "get_top_words"
          /\ langArgs' = [k |-> k, n |-> top, none |-> none]
          /\ langOut' = get_top_words(words_list, k, top, none)
    /\ UNCHANGED <<configVars, wordleVars, words_list, frequency>>

\* list(language.iter_k_tuples(k))
IterKTuples ==
    /\ words_list # <<>>
    /\ \E k \in 1..MaxK :
          /\ langCall' = "iter_k_tuples"
          /\ langArgs' = k
          /\ langOut' = iter_k_tuples(words_list, k)
    /\ UNCHANGED <<configVars, wordleVars, words_list, frequency>>

\* language.score_words(*ws)
ScoreWords ==
    /\ words_list # <<>>
    /\ \E ws \in ScoreInputs :
          /\ langCall' = "score_words"
          /\ langArgs' = ws
          /\ langOut' = score_words(ws)
    /\ UNCHANGED <<configVars, wordleVars, words_list, frequency>>

\* -------------------------------------------------------- specifications
\* No game, player or controller exists yet.
Unstarted ==
    /\ word = <<>>
    /\ guesses = <<>>
    /\ calls = <<>>
    /\ pc = "start"
    /\ raised = "none"
    /\ arg = <<>>
    /\ guessFrom = "none"
    /\ playerCls = "none"
    /\ initial = <<>>
    /\ n = 0
    /\ rounds = 0
    /\ player_cls = "none"
    /\ player_kwargs = <<>>
    /\ sweepAt = 0
    /\ counter = EmptyCounter
    /\ played = <<>>

\* No Language exists.
NoLanguage ==
    /\ words_list = <<>>
    /\ frequency = <<>>
    /\ langCall = "none"
    /\ langArgs = <<>>
    /\ langOut = <<>>

\* Configuration.__init__ has run, and nothing else.
Init ==
    /\ allowed \in AllowedOrders
    /\ length = Length
    /\ height \in 0..MaxHeight
    /\ Unstarted
    /\ NoLanguage

\* Configuration() with its defaults, over a vocabulary that holds the two
\* words of the documented example.
InitExample ==
    /\ allowed \in {<<Crane, Trace>>, <<Trace, Crane>>}
    /\ length = DefaultLength
    /\ height = DefaultHeight
    /\ Unstarted
    /\ NoLanguage

\* A game driven by direct calls of append_guess.
NextGame == GameInit \/ AppendGuess
SpecGame == Init /\ [][NextGame]_vars

\* A configuration whose height is above the longest history explored: the
\* count of guesses never ends the game.
InitHigh ==
    /\ allowed \in AllowedOrders
    /\ length = Length
    /\ height = MaxHeight + 1
    /\ Unstarted
    /\ NoLanguage

\* A game of that configuration, driven by direct calls of append_guess.
SpecHighGame == InitHigh /\ [][NextGame]_vars

\* The same, in the default configuration of the documented example.
SpecExample == InitExample /\ [][NextGame]_vars

\* A game driven by Game.play with a player (Controller.play).
NextPlay == GameInit \/ PlayerInit \/ PlayRound \/ PlayReturn
SpecPlay == Init /\ [][NextPlay]_vars

\* The same with the Game of the older module src/wordle.py.
NextOlderPlay == GameInit \/ PlayerInit \/ OlderPlayRound \/ OlderPlayReturn
SpecOlderPlay == Init /\ [][NextOlderPlay]_vars

\* Game.play is a loop that runs on: nothing suspends it.
FairSpecPlay == SpecPlay /\ WF_vars(NextPlay)

\* Controller.play_all: one game per word of the vocabulary.  An exception
\* that leaves Game.play or the constructor of the player is caught nowhere:
\* it leaves Controller.play and play_all (pc = "raised" is final).
NextSweep ==
    PlayAll \/ SweepPlay \/ PlayRound \/ PlayReturn \/ SweepTally \/ SweepReturn
SpecSweep == Init /\ [][NextSweep]_vars

\* Language.__init__ has run on a corpus; lang.py uses no Configuration, and
\* none exists.
InitLang ==
    /\ allowed = <<>>
    /\ length = 0
    /\ height = 0
    /\ Unstarted
    /\ \E corpus \in Corpora :
          /\ words_list = sorted(corpus)
          /\ frequency = Frequency(corpus)
    /\ langCall = "none"
    /\ langArgs = <<>>
    /\ langOut = <<>>

\* The methods of a Language, called in any order.
NextLang == IterKTuples \/ ScoreWords \/ GetTopWords
SpecLang == InitLang /\ [][NextLang]_vars

\* ---------------------------------------------------------------- claims
\* C1: when the guess that brings len(guesses) to exactly height (>= 1)
\* equals the secret, state() reports Won ("True"), not Lost.
C1_WonOnLastGuess ==
    (height >= 1 /\ Len(guesses) = height /\ guesses[Len(guesses)] = word)
        => state = "True"

\* A player that returns only vocabulary words: RandomPlayer always does, a
\* GreedyInitialGuesser does when its initial words are vocabulary words.
ReturnsVocabularyWords ==
    playerCls = "RandomPlayer" \/ Range(initial) \subseteq AllowedSet

\* C2: Game.play with a player that returns only vocabulary words of the
\* configured length terminates: it returns after at most height calls of
\* append_guess, with state() Won or Lost, never InProgress (unless the
\* player returns no word at all and raises instead).
C2_PlayTerminates ==
    (pc = "playing" /\ ReturnsVocabularyWords)
        ~> \/ pc = "returned" /\ state \in {"True", "False"} /\ rounds <= height
           \/ pc = "raised" /\ raised = CouldNotGuess

\* Game.play has returned after exactly height > 0 rounds.
C2_Witness ==
    /\ pc = "returned"
    /\ ReturnsVocabularyWords
    /\ height = MaxHeight
    /\ rounds = height

\* C3: append_guess(word) raises the length error (ValueError) when
\* len(word) != configuration.length, otherwise the not-in-vocabulary error
\* (KeyError) when word is not in configuration.allowed; in both cases
\* guesses, calls and the secret are left as they were.
C3_AppendGuessErrors ==
    [][pc = "game" =>
          /\ Len(arg') # Length =>
                raised' = WrongLength /\ ExceptionType(raised') = "ValueError"
          /\ (Len(arg') = Length /\ arg' \notin AllowedSet) =>
                raised' = NotFound /\ ExceptionType(raised') = "KeyError"
          /\ raised' # "none" => UNCHANGED <<guesses, calls, word>>]_vars

\* A word that is not in the vocabulary was refused after a guess had been
\* accepted.
C3_Witness ==
    /\ guessFrom = "caller"
    /\ raised = NotFound
    /\ Len(guesses) >= 1

\* C4: the feedback appended for an accepted guess g has, at each position
\* i, Correct iff g[i] = s[i], otherwise Present iff g[i] occurs in the
\* secret s, otherwise Absent; the number of Correct calls is the number of
\* positions where g and s agree.
C4_Feedback ==
    /\ Len(calls) = Len(guesses)
    /\ \A k \in DOMAIN guesses :
          LET g == guesses[k]
              c == calls[k]
          IN /\ DOMAIN c = 1..Length
             /\ \A i \in 1..Length :
                   /\ c[i] = "correct" <=> g[i] = word[i]
                   /\ c[i] = "somewhere" <=>
                         (g[i] # word[i] /\ g[i] \in Range(word))
                   /\ c[i] = "incorrect" <=>
                         (g[i] # word[i] /\ g[i] \notin Range(word))
             /\ Cardinality({i \in 1..Length : c[i] = "correct"})
                  = Cardinality({i \in 1..Length : g[i] = word[i]})

\* The history holds a Correct, a Present and an Absent call.
C4_Witness ==
    \A kind \in {"correct", "somewhere", "incorrect"} :
        \E k \in DOMAIN calls : \E i \in DOMAIN calls[k] : calls[k][i] = kind

\* C5: Won and Lost are terminal: once state() is Won or Lost it keeps that
\* value after any further successful append_guess.
C5_TerminalStates ==
    [][(state # "None") => (state' = state)]_vars

\* The history before the last guess.
Front(s) == SubSeq(s, 1, Len(s) - 1)

\* C6: a word returned by guess_late_game is the lexicographically
\* smallest word of configuration.allowed that is not among the previous
\* guesses and is valid under the constraints derived from the history.
C6_GreedyFirstSorted ==
    (guessFrom = "late" /\ raised = "none") =>
        LET found == {allowed[i] :
                        i \in LateCandidates(Front(guesses), Front(calls))}
        IN /\ arg \in found
           /\ \A w \in found : w = arg \/ LexLess(arg, w)

\* C7: the constraints never lose information as guesses are appended:
\* appears (mustContain) only grows and every entry of positions stays,
\* with the same character.
C7_ConstraintsMonotone ==
    [][Len(guesses') > Len(guesses) =>
          LET old == get_constraints(guesses, calls)
              new == get_constraints(guesses', calls')
          IN /\ old.appears \subseteq new.appears
             /\ \A i \in DOMAIN old.positions :
                   /\ i \in DOMAIN new.positions
                   /\ new.positions[i] = old.positions[i]]_vars

\* A guess without any Correct or Present call was appended to a history
\* that had already fixed a position.
C7_Witness ==
    /\ Len(guesses) >= 2
    /\ DOMAIN get_constraints(Front(guesses), Front(calls)).positions # {}
    /\ \A i \in 1..Length : calls[Len(calls)][i] = "incorrect"

\* C8: for the history of a game, appears (mustContain) and no_appears
\* (mustNotContain) are disjoint.
C8_AppearsDisjoint ==
    LET cs == get_constraints(guesses, calls)
    IN cs.appears \cap cs.no_appears = {}

\* The history holds a guess with a Present and an Absent call, and both
\* sets are inhabited.
C8_Witness ==
    /\ \E k \in DOMAIN calls :
          /\ \E i \in DOMAIN calls[k] : calls[k][i] = "somewhere"
          /\ \E i \in DOMAIN calls[k] : calls[k][i] = "incorrect"
    /\ get_constraints(guesses, calls).appears # {}
    /\ get_constraints(guesses, calls).no_appears # {}

\* C10 as stated: append_guess never raises for a guess produced by a
\* RandomPlayer or by a GreedyInitialGuesser whose constructor succeeded.
C10_PlayersNeverInvalid ==
    guessFrom \in {"Random", "initial", "late"} =>
        raised \notin {WrongLength, NotFound}

\* C10 as amended: a guess of a RandomPlayer and a guess of guess_late_game
\* are always accepted; a guess replayed from the initial list has the
\* configured length, and is refused (KeyError) exactly when it is not in
\* configuration.allowed.
C10_PlayerGuessesAmended ==
    /\ guessFrom \in {"Random", "late"} =>
          raised \notin {WrongLength, NotFound}
    /\ guessFrom = "initial" =>
          /\ raised # WrongLength
          /\ Len(arg) = Length
          /\ raised = NotFound <=> arg \notin AllowedSet

\* guess_late_game produced a guess after the initial list was replayed,
\* and it was appended.
C10_Witness ==
    /\ guessFrom = "late"
    /\ raised = "none"
    /\ n >= 1
    /\ guesses[Len(guesses)] = arg

\* C19 as stated: with secret "crane", the guess "trace" is answered
\* [Absent, Correct, Present, Correct, Present].
C19_CraneTraceStated ==
    \A k \in DOMAIN guesses :
        (word = Crane /\ guesses[k] = Trace) =>
            calls[k] = <<"incorrect", "correct", "somewhere", "correct",
                         "somewhere">>

\* C19 amended: with secret "crane", the guess "trace" is answered
\* [Absent, Correct, Correct, Present, Correct]: "r", "a" and "e" stand where
\* the secret has them, "c" is in the secret elsewhere, "t" is not in it.
C19_CraneTraceAmended ==
    \A k \in DOMAIN guesses :
        (word = Crane /\ guesses[k] = Trace) =>
            calls[k] = <<"incorrect", "correct", "correct", "somewhere",
                         "correct">>

\* append_guess("trace") has been accepted in a game whose secret is "crane".
C19_Witness ==
    /\ word = Crane
    /\ length = DefaultLength
    /\ Trace \in Range(guesses)
    /\ Len(calls) = Len(guesses)

\* C11: in every game of play_all a player made with an initial list of N
\* words plays them in order, whatever games came before: the i-th guess of
\* the game is the i-th initial word for every i up to min(N, guesses made);
\* a guess taken from the initial list is one of the first N of the game, a
\* guess made by guess_late_game comes after the N-th.
C11_InitialReplayed ==
    (player_cls = "GreedyInitialGuesser" /\ sweepAt >= 1) =>
        /\ \A i \in 1..Min(Len(player_kwargs), Len(guesses)) :
              guesses[i] = player_kwargs[i]
        /\ (guessFrom = "initial" /\ raised = "none") =>
              Len(guesses) <= Len(player_kwargs)
        /\ (guessFrom = "late" /\ raised = "none") =>
              Len(guesses) > Len(player_kwargs)

\* A second or later game of play_all has replayed its initial list and has
\* gone on with guess_late_game.
C11_Witness ==
    /\ player_cls = "GreedyInitialGuesser"
    /\ sweepAt >= 2
    /\ Len(player_kwargs) >= 1
    /\ Len(guesses) > Len(player_kwargs)
    /\ guessFrom = "late"
    /\ raised = "none"

\* The games returned to play_all so far that satisfy P.
PlayedWhere(P(_)) == {i \in DOMAIN played : P(played[i])}

\* C12: play_all plays one game per vocabulary word and tallies it once,
\* under len(game.guesses) if and only if the game was Won and under
\* "Failure" otherwise; the values of the histogram sum to the number of
\* words played (|allowed| at the end), every integer key k has
\* 1 <= k <= height and counts exactly the secrets guessed on their k-th
\* guess.
C12_TallyExact ==
    (pc \in {"sweep", "swept"}) =>
        /\ Len(played) = sweepAt
        /\ \A i \in DOMAIN played : played[i].word = allowed[i]
        /\ AllValues(counter) = Len(played)
        /\ pc = "swept" => AllValues(counter) = Len(allowed)
        /\ \A k \in DOMAIN counter.ints : 1 <= k /\ k <= height
        /\ \A k \in 1..(MaxHeight + 1) :
              /\ CounterGet(counter, k) =
                    Cardinality(PlayedWhere(LAMBDA g :
                        g.guesses = k /\ g.state = "True"))
              /\ CounterGet(counter, k) =
                    Cardinality(PlayedWhere(LAMBDA g :
                        g.guesses = k /\ g.solved))
        /\ counter.Failure =
              Cardinality(PlayedWhere(LAMBDA g : g.state # "True"))

\* C18: for the histogram returned by play_all, success is the number of
\* Won games (the last guess is the secret) over the number of games played
\* and speed is the sum of the guess counts of the Won games over the number
\* of games played; both denominators are |allowed|.
C18_Metrics ==
    (pc = "swept") =>
        LET Won == PlayedWhere(LAMBDA g : g.solved)
            count == [i \in DOMAIN played |-> played[i].guesses]
        IN /\ success(counter) =
                 [num |-> Cardinality(Won), den |-> Len(played)]
           /\ speed(counter) =
                 [num |-> SumOver(count, Won), den |-> Len(played)]
           /\ success(counter).den = Len(allowed)
           /\ speed(counter).den = Len(allowed)

\* C16: the constructor of a GreedyInitialGuesser (InitialGuesser.__init__)
\* fails with the length-mismatch ValueError if and only if some initial
\* word has a length other than configuration.length; when it succeeds the
\* player holds the list and starts at n = 0.
C16_InitialChecked ==
    (player_cls = "GreedyInitialGuesser" /\ sweepAt >= 1) =>
        /\ (pc = "raised" /\ raised = InitialNotLength)
              <=> (\E i \in DOMAIN player_kwargs :
                      Len(player_kwargs[i]) # length)
        /\ raised = InitialNotLength => ExceptionType(raised) = "ValueError"
        /\ (pc = "playing" /\ rounds = 0) =>
              (n = 0 /\ initial = player_kwargs)

\* The constructor has refused a list whose first word has the configured
\* length and whose second word has not.
C16_Witness ==
    /\ player_cls = "GreedyInitialGuesser"
    /\ sweepAt >= 1
    /\ Len(player_kwargs) = 2
    /\ Len(player_kwargs[1]) = length
    /\ Len(player_kwargs[2]) # length
    /\ pc = "raised"
    /\ raised = InitialNotLength

\* The places <<k, i>> of the history whose call is one of kinds.
CalledAs(kinds) ==
    {ki \in (DOMAIN guesses) \X (1..length) : calls[ki[1]][ki[2]] \in kinds}

\* C15: for the constraints get_constraints derives from the history of a
\* game, positions holds (i, c) exactly when some guess had c at index i
\* with call Correct, appears is exactly the set of characters called
\* Correct or Present, no_appears exactly the set of characters called
\* Absent.
C15_ConstraintsExact ==
    LET cs == get_constraints(guesses, calls)
    IN /\ \A i \in 1..length, c \in Alphabet :
             (i \in DOMAIN cs.positions /\ cs.positions[i] = c)
                 <=> (\E k \in DOMAIN guesses :
                         guesses[k][i] = c /\ calls[k][i] = "correct")
       /\ DOMAIN cs.positions \subseteq 1..length
       /\ cs.appears =
             {guesses[ki[1]][ki[2]] : ki \in CalledAs({"correct", "somewhere"})}
       /\ cs.no_appears =
             {guesses[ki[1]][ki[2]] : ki \in CalledAs({"incorrect"})}

\* A history in which the three calls all occur.
C15_Witness ==
    /\ Len(guesses) >= 2
    /\ CalledAs({"correct"}) # {}
    /\ CalledAs({"somewhere"}) # {}
    /\ CalledAs({"incorrect"}) # {}

\* C20: the history is append-only and aligned.  Always len(guesses) =
\* len(calls) and every call has configuration.length entries; a successful
\* append_guess adds one guess (its argument) and one call at the end and
\* leaves the earlier entries, the secret and the configuration as they were.
C20_HistoryAppendOnly ==
    [][/\ Len(guesses') = Len(calls')
       /\ \A k \in DOMAIN calls' : Len(calls'[k]) = length'
       /\ (pc = "game" /\ raised' = "none") =>
             /\ guesses' = Append(guesses, arg')
             /\ Len(calls') = Len(calls) + 1
             /\ Front(calls') = calls
             /\ word' = word
             /\ configVars' = configVars]_vars

\* A third guess has been appended to a history of two.
C20_Witness ==
    /\ pc = "game"
    /\ raised = "none"
    /\ Len(guesses) = 3
    /\ Len(calls) = 3
    /\ guesses[3] = arg

\* No character occurs more than once in the concatenation of the words of
\* the tuple t.
ExclusiveTuple(t) ==
    \A ch \in Alphabet : SumSeq([i \in DOMAIN t |-> CharCount(t[i], ch)], 1) <= 1

\* C13 as stated: for every k >= 1 each tuple yielded by iter_k_tuples(k) is
\* exclusive: no character occurs more than once in the concatenation of its
\* words.
C13_YieldedExclusive ==
    (langCall = "iter_k_tuples" /\ langArgs >= 1) =>
        \A i \in DOMAIN langOut : ExclusiveTuple(langOut[i])

\* C13 amended: for every k >= 2 each tuple yielded by iter_k_tuples(k) has k
\* words and is exclusive; iter_k_tuples(1) yields every word of the corpus,
\* a word with a repeated letter included.
C13_YieldedExclusiveFromPairs ==
    (langCall = "iter_k_tuples") =>
        /\ langArgs >= 2 =>
              \A i \in DOMAIN langOut :
                  Len(langOut[i]) = langArgs /\ ExclusiveTuple(langOut[i])
        /\ langArgs = 1 =>
              {langOut[i] : i \in DOMAIN langOut}
                  = {<<w>> : w \in Range(words_list)}

\* iter_k_tuples(3) has yielded a tuple from a corpus that holds a word with
\* a repeated letter.
C13_Witness ==
    /\ langCall = "iter_k_tuples"
    /\ langArgs = 3
    /\ langOut # <<>>
    /\ \E w \in Range(words_list) : Cardinality(Range(w)) < Len(w)

\* The sets of k words of the corpus that are pairwise exclusive (and so
\* free of repeated letters).
ExclusiveSets(words, k) ==
    {S \in SUBSET words :
        /\ Cardinality(S) = k
        /\ \A u \in S : Cardinality(Range(u)) = Len(u)
        /\ \A u \in S : \A v \in S \ {u} : Range(u) \cap Range(v) = {}}

\* C14 as stated: the enumeration is not exhaustive for k >= 3: there are a
\* corpus and k pairwise exclusive words of it, free of repeated letters,
\* that no tuple yielded by iter_k_tuples(k) consists of (the corpus being
\* any of those a Language is made of, the one at hand or another).
C14_SomeSetMissed ==
    /\ Range(words_list) \in Corpora
    /\ \E corpus \in Corpora, k \in 3..MaxK :
          \E S \in ExclusiveSets(corpus, k) :
              \A t \in Range(iter_k_tuples(sorted(corpus), k)) : Range(t) # S

\* C14 amended: the enumeration is exhaustive: for k >= 2, every set of k
\* pairwise exclusive words of the corpus, free of repeated letters, is the
\* set of the words of exactly one tuple yielded by iter_k_tuples(k).
C14_EverySetYielded ==
    (langCall = "iter_k_tuples" /\ langArgs >= 2) =>
        \A S \in ExclusiveSets(Range(words_list), langArgs) :
            Cardinality({i \in DOMAIN langOut : Range(langOut[i]) = S}) = 1

\* iter_k_tuples(3) has run on a corpus that holds several sets of three
\* pairwise exclusive words.
C14_Witness ==
    /\ langCall = "iter_k_tuples"
    /\ langArgs = 3
    /\ Cardinality(ExclusiveSets(Range(words_list), 3)) >= 2
    /\ Len(langOut) >= 2

\* The distinct characters of the words ws.
CharsOf(ws) == UNION {Range(ws[i]) : i \in DOMAIN ws}

\* The number of times ch occurs in the corpus.
CorpusCount(ch) ==
    SumSeq([i \in DOMAIN words_list |-> CharCount(words_list[i], ch)], 1)

\* The number of characters of the corpus.
CorpusSize == SumSeq([i \in DOMAIN words_list |-> Len(words_list[i])], 1)

\* C17: score_words depends only on the set of the distinct characters of
\* its arguments: it is the sum of their corpus counts over the total number
\* of characters; it is the same for any other arguments with the same
\* characters (reordered or repeated words, repeated letters), and for
\* pairwise exclusive words it is the sum of the scores of the words.
C17_ScoreBySet ==
    (langCall = "score_words") =>
        /\ langOut =
              [num |-> SumOver([ch \in CharsOf(langArgs) |-> CorpusCount(ch)],
                               CharsOf(langArgs)),
               den |-> CorpusSize]
        /\ \A other \in ScoreInputs :
              CharsOf(other) = CharsOf(langArgs) => score_words(other) = langOut
        /\ (\A i \in DOMAIN langArgs, j \in DOMAIN langArgs :
                i # j => exclusive(langArgs[i], langArgs[j]))
              => langOut.num =
                    SumSeq([i \in DOMAIN langArgs |->
                               score_words(<<langArgs[i]>>).num], 1)

\* score_words has scored the same word of the corpus twice.
C17_Witness ==
    /\ langCall = "score_words"
    /\ Len(langArgs) = 2
    /\ langArgs[1] = langArgs[2]
    /\ langArgs[1] \in Range(words_list)
    /\ langOut.num > 0

\* C21: in the Game of the older module height is the maximum number of
\* guesses: in every state reached through Game.play len(guesses) <= height,
\* and a game whose first height guesses all differ from the secret is Lost
\* (state() is False) once the height-th guess has been appended.
C21_OlderHeightIsMaximum ==
    (height >= 1 /\ pc \in {"playing", "returned", "raised"}) =>
        /\ Len(guesses) <= height
        /\ (Len(guesses) >= height
             /\ \A i \in 1..height : guesses[i] # word)
              => olderState = "False"

\* C22: get_top_words(k, n) returns pairs (tuple, score), each tuple one
\* that iter_k_tuples(k) yields, with its score_words, in non-increasing
\* order of score; min(n, number of yielded tuples) of them (all when n is
\* None), no tuple twice, and no tuple left out scores strictly higher than
\* one returned.
C22_TopWords ==
    (langCall = "get_top_words") =>
        LET yielded == iter_k_tuples(words_list, langArgs.k)
            kept == {langOut[i].words : i \in DOMAIN langOut}
        IN /\ \A i \in DOMAIN langOut :
                 /\ langOut[i].words \in Range(yielded)
                 /\ langOut[i].score = score_words(langOut[i].words)
           /\ \A i \in DOMAIN langOut : \A j \in DOMAIN langOut :
                 i < j => /\ langOut[i].score.num >= langOut[j].score.num
                          /\ langOut[i].words # langOut[j].words
           /\ Len(langOut) = IF langArgs.none THEN Len(yielded)
                              ELSE Min(langArgs.n, Len(yielded))
           /\ \A t \in Range(yielded) \ kept : \A i \in DOMAIN langOut :
                 score_words(t).num <= langOut[i].score.num

\* get_top_words(k, 1) has returned a tuple that was not the first one
\* yielded, leaving out tuples of lower score.
C22_Witness ==
    /\ langCall = "get_top_words"
    /\ ~langArgs.none
    /\ langArgs.n = 1
    /\ Len(langOut) = 1
    /\ LET yielded == iter_k_tuples(words_list, langArgs.k)
       IN /\ Len(yielded) >= 2
          /\ langOut[1].words # yielded[1]
          /\ score_words(yielded[1]).num < langOut[1].score.num

\* C23: in a game whose secret is a vocabulary word, after every sequence of
\* accepted guesses the secret satisfies valid_under_constraints for
\* get_constraints(guesses, calls); hence while state() is InProgress the
\* secret is an unguessed valid candidate and guess_late_game returns a word
\* and does not raise.
C23_SecretStaysCandidate ==
    (pc = "game" /\ word \in AllowedSet) =>
        LET cs == get_constraints(guesses, calls)
        IN /\ valid_under_constraints(word, cs.positions, cs.appears,
                                      cs.no_appears)
           /\ state = "None" =>
                 /\ word \notin Range(guesses)
                 /\ guess_late_game(guesses, calls).raised = "none"

\* The vocabulary words that satisfy valid_under_constraints under
\* get_constraints(gs, cls).
ValidWords(gs, cls) ==
    LET cs == get_constraints(gs, cls)
    IN {w \in AllowedSet :
          valid_under_constraints(w, cs.positions, cs.appears, cs.no_appears)}

\* C24: the candidate set only shrinks during a game: when an accepted guess
\* extends the history, the words valid under the constraints of the longer
\* history are among those valid under the shorter one; and a word returned
\* by guess_late_game is none of the guesses made so far.
C24_CandidatesShrink ==
    [][(Len(guesses') > Len(guesses)) =>
          /\ ValidWords(guesses', calls') \subseteq ValidWords(guesses, calls)
          /\ guess_late_game(guesses', calls').raised = "none" =>
                guess_late_game(guesses', calls').word \notin Range(guesses')]_vars

\* The second guess of a game has removed words from the candidate set, and
\* guess_late_game still finds a word.
C24_Witness ==
    /\ pc = "game"
    /\ Len(guesses) = 2
    /\ ValidWords(guesses, calls) # ValidWords(Front(guesses), Front(calls))
    /\ ValidWords(guesses, calls) \subseteq ValidWords(Front(guesses), Front(calls))
    /\ guess_late_game(guesses, calls).raised = "none"

\* The values recorded under key in the index, <<>> when the key is absent.
IndexedUnder(index, key) ==
    IF \E e \in DOMAIN index : index[e].key = key
      THEN index[CHOOSE e \in DOMAIN index : index[e].key = key].values
      ELSE <<>>

\* C25: for k >= 2 every tuple yielded by iter_k_tuples(k) is strictly
\* ascending in the sorted word order, no tuple is yielded twice and no two
\* yielded tuples hold the same set of words; in the pair index b is
\* recorded under (a,), once, exactly when a precedes b in sorted order and
\* a, b are exclusive.
C25_NoDuplicates ==
    (langCall = "iter_k_tuples" /\ langArgs >= 2) =>
        /\ \A i \in DOMAIN langOut : \A p \in DOMAIN langOut[i] :
              \A q \in DOMAIN langOut[i] :
                  p < q => LexLess(langOut[i][p], langOut[i][q])
        /\ \A i \in DOMAIN langOut : \A j \in DOMAIN langOut :
              i # j => /\ langOut[i] # langOut[j]
                       /\ Range(langOut[i]) # Range(langOut[j])
        /\ LET index == get_index(words_list)
           IN /\ \A e \in DOMAIN index : \A f \in DOMAIN index :
                    e # f => index[e].key # index[f].key
              /\ \A a \in Range(words_list) : \A b \in Range(words_list) :
                    LET under == IndexedUnder(index, <<a>>)
                        places == {v \in DOMAIN under : under[v] = b}
                    IN /\ places # {} <=> (LexLess(a, b) /\ exclusive(a, b))
                       /\ Cardinality(places) <= 1

\* iter_k_tuples(2) has yielded several pairs from a corpus that also holds
\* two words that are not exclusive.
C25_Witness ==
    /\ langCall = "iter_k_tuples"
    /\ langArgs = 2
    /\ Len(langOut) >= 3
    /\ \E a \in Range(words_list) : \E b \in Range(words_list) :
          LexLess(a, b) /\ ~exclusive(a, b)

====
